---------------------------- MODULE Spec2Model ----------------------------
(***************************************************************************)
(* Authentication and account subsystem of the blog REST backend.          *)
(*                                                                         *)
(* Every HTTP request is a process that walks through the access guard,    *)
(* then through the route handler.  Each `await` on the database is a      *)
(* step boundary, so concurrent requests interleave between a handler's    *)
(* read and its write exactly as the asynchronous runtime lets them.       *)
(***************************************************************************)
EXTENDS Integers, Sequences, FiniteSets, TLC

(***************************************************************************)
(* Bounds of the model.                                                    *)
(***************************************************************************)
NumReqs == 2
MaxRequests == 3
MaxTime == 2

Reqs == 1..NumReqs

(***************************************************************************)
(* Strings that letter case matters for are sequences of characters.       *)
(***************************************************************************)
LowerChar(c) ==
  CASE c = "A" -> "a"
    [] c = "B" -> "b"
    [] c = "W" -> "w"
    [] OTHER -> c

toLowerCase(s) == [i \in DOMAIN s |-> LowerChar(s[i])]

\* The slug package: lower case, every blank replaced by a dash.
slug(title) ==
  [i \in DOMAIN title |-> IF title[i] = " " THEN "-" ELSE LowerChar(title[i])]

\* Titles have 6 to 70 characters (CreatePostDto).
TitleInputs == { <<"A", " ", "b", "l", "o", "g">>, <<"a", "-", "b", "l", "o", "g">>,
                 <<"W", "e", "b", "l", "o", "g">> }

\* The text `${slug}` gives for a slug that is undefined.
UndefinedSlug == <<"u", "n", "d", "e", "f", "i", "n", "e", "d">>

EmailInputs == { <<"a", "@", "x">>, <<"A", "@", "x">>, <<"b", "@", "x">> }
PasswordInputs == { "secret1", "secret2" }
FirstNameInput == <<"W", "i">>
GoogleProviderId == "g-1"

(***************************************************************************)
(* bcrypt.  A digest remembers the salt it was made with; compare          *)
(* recomputes the digest of the candidate with that salt.                  *)
(***************************************************************************)
NullPassword == [alg |-> "null", salt |-> 0, text |-> ""]
RawString(s) == [alg |-> "plain", salt |-> 0, text |-> s]
bcryptHash(password, salt) == [alg |-> "bcrypt", salt |-> salt, text |-> password]

bcryptCompare(data, encrypted) ==
  IF encrypted = NullPassword THEN "throw"
  ELSE IF encrypted.alg # "bcrypt" THEN "false"
  ELSE IF bcryptHash(data, encrypted.salt) = encrypted THEN "true"
  ELSE "false"

(***************************************************************************)
(* JSON web tokens.  A signature binds a payload to the signing key.       *)
(***************************************************************************)
SECRET_KEY == "server-secret"
TokenLifetime == 1

NoPayload == [sub |-> 0, email |-> <<>>, iat |-> 0, exp |-> 0]
Sign(payload, key) == [key |-> key, body |-> payload]
NoSig == Sign(NoPayload, "")
NoToken == [parts |-> 0, payload |-> NoPayload, sig |-> NoSig]
MalformedToken == [parts |-> 1, payload |-> NoPayload, sig |-> NoSig]

signAsync(claims, t) ==
  LET payload == [sub |-> claims.sub, email |-> claims.email,
                  iat |-> t, exp |-> t + TokenLifetime]
  IN  [parts |-> 3, payload |-> payload, sig |-> Sign(payload, SECRET_KEY)]

\* Variant: a token is still good at the instant of its expiry.
verifyAsync_goodAtExpiry(token, secret, t) ==
  IF token.parts # 3 THEN NoPayload
  ELSE IF token.sig # Sign(token.payload, secret) THEN NoPayload
  ELSE IF t > token.payload.exp THEN NoPayload
  ELSE token.payload

\* verifyAsync: the decoded payload, or NoPayload when verification throws.
verifyAsync(token, secret, t) ==
  IF token.parts # 3 THEN NoPayload
  ELSE IF token.sig # Sign(token.payload, secret) THEN NoPayload
  ELSE IF t >= token.payload.exp THEN NoPayload
  ELSE token.payload

(***************************************************************************)
(* Routes and their "public" marker.                                       *)
(***************************************************************************)
Routes == { "sign-up", "sign-in", "google-callback", "current-user", "delete-user",
            "follow", "unfollow", "get-profile" }

\* The routes of the posts controller, and the posts route of the users
\* controller.
PostsRoutes == { "create-post", "delete-post", "update-post", "get-user-posts" }

IsPublic(route) == route \in { "sign-up", "sign-in", "google-callback", "get-user-posts" }

\* The access guard is registered for the whole application: it is consulted
\* for every route before the route's handler.
AccessGuardApplies(route) == route \in Routes \cup PostsRoutes

(***************************************************************************)
(* Authorization header.                                                   *)
(***************************************************************************)
NoHeader == [present |-> FALSE, type |-> "", token |-> NoToken]
Header(type, token) == [present |-> TRUE, type |-> type, token |-> token]

extractTokenFromHeader(authorization) ==
  IF ~authorization.present THEN NoToken
  ELSE IF authorization.type = "Bearer" THEN authorization.token
  ELSE NoToken

(***************************************************************************)
(* State.                                                                  *)
(*   users, profiles, accounts : the rows of the three tables              *)
(*   follows  : the rows of the Follows table, one per directed edge       *)
(*   posts    : the rows of the Post table                                 *)
(*   files    : the cover files under ./public/posts, by path and content  *)
(*   nextId   : source of fresh primary keys (cuid() never repeats)        *)
(*   issued   : the access tokens handed to clients so far                 *)
(*   now      : the clock, in days since the first token was issued        *)
(*   req      : the requests in flight, one record per connection          *)
(*   reqCount : number of requests accepted so far                         *)
(***************************************************************************)
VARIABLES users, profiles, accounts, follows, posts, files, nextId, issued, now,
          req, reqCount

(***************************************************************************)
(* AuthenticationGuard.canActivate: the verdict and the identity attached  *)
(* to the request.                                                         *)
(***************************************************************************)
\* Variant: a missing token is let through.
canActivate_missingTokenAllowed(route, authorization, t) ==
  IF IsPublic(route) THEN [allow |-> TRUE, user |-> NoPayload]
  ELSE LET token == extractTokenFromHeader(authorization) IN
       IF token = NoToken THEN [allow |-> TRUE, user |-> NoPayload]
       ELSE LET payload == verifyAsync(token, SECRET_KEY, t) IN
            IF payload = NoPayload THEN [allow |-> FALSE, user |-> NoPayload]
            ELSE [allow |-> TRUE, user |-> payload]

\* Variant: the catch block swallows the verification error.
canActivate_catchSwallows(route, authorization, t) ==
  IF IsPublic(route) THEN [allow |-> TRUE, user |-> NoPayload]
  ELSE LET token == extractTokenFromHeader(authorization) IN
       IF token = NoToken THEN [allow |-> FALSE, user |-> NoPayload]
       ELSE LET payload == verifyAsync(token, SECRET_KEY, t) IN
            IF payload = NoPayload THEN [allow |-> TRUE, user |-> NoPayload]
            ELSE [allow |-> TRUE, user |-> payload]

\* Variant: the public marker is not consulted.
canActivate_publicIgnored(route, authorization, t) ==
  LET token == extractTokenFromHeader(authorization) IN
    IF token = NoToken THEN [allow |-> FALSE, user |-> NoPayload]
    ELSE LET payload == verifyAsync(token, SECRET_KEY, t) IN
         IF payload = NoPayload THEN [allow |-> FALSE, user |-> NoPayload]
         ELSE [allow |-> TRUE, user |-> payload]

\* Variant: the token of a user that no longer exists is refused.
canActivate_userMustExist(route, authorization, t) ==
  IF IsPublic(route) THEN [allow |-> TRUE, user |-> NoPayload]
  ELSE LET token == extractTokenFromHeader(authorization) IN
       IF token = NoToken THEN [allow |-> FALSE, user |-> NoPayload]
       ELSE LET payload == verifyAsync(token, SECRET_KEY, t) IN
            IF payload = NoPayload THEN [allow |-> FALSE, user |-> NoPayload]
            ELSE IF \A u \in users : u.id # payload.sub
                 THEN [allow |-> FALSE, user |-> NoPayload]
                 ELSE [allow |-> TRUE, user |-> payload]

canActivate(route, authorization, t) ==
  IF IsPublic(route) THEN [allow |-> TRUE, user |-> NoPayload]
  ELSE LET token == extractTokenFromHeader(authorization) IN
       IF token = NoToken THEN [allow |-> FALSE, user |-> NoPayload]
       ELSE LET payload == verifyAsync(token, SECRET_KEY, t) IN
            IF payload = NoPayload THEN [allow |-> FALSE, user |-> NoPayload]
            ELSE [allow |-> TRUE, user |-> payload]


vars == <<users, profiles, accounts, follows, posts, files, nextId, issued, now,
          req, reqCount>>
tables == <<users, profiles, accounts>>

NoUser == [id |-> 0, email |-> <<>>, password |-> NullPassword, via |-> "none"]
NoTitle == <<>>
NoBody == [email |-> <<>>, password |-> "", firstName |-> <<>>, id |-> 0,
           providerId |-> "", followedId |-> 0,
           title |-> NoTitle, cover |-> FALSE, slug |-> <<>>]
NoPost == [id |-> 0, authorId |-> 0, slug |-> <<>>, title |-> NoTitle, cover |-> <<>>]
\* A response: its status, the access token it carries, and where its message
\* comes from: "fixed" for a text written in the program, "storage" for the
\* text of an error of the storage layer, "" when there is no message.
NoRes == [status |-> "None", accessToken |-> NoToken, message |-> ""]

IdleReq == [pc |-> "idle", route |-> "", authorization |-> NoHeader,
            body |-> NoBody, user |-> NoPayload, found |-> NoUser,
            post |-> NoPost, data |-> {},
            reached |-> FALSE, res |-> NoRes]

Init ==
  /\ users = {}
  /\ profiles = {}
  /\ accounts = {}
  /\ follows = {}
  /\ posts = {}
  /\ files = {}
  /\ nextId = 1
  /\ issued = {}
  /\ now = 0
  /\ req = [r \in Reqs |-> IdleReq]
  /\ reqCount = 0

(***************************************************************************)
(* Prisma queries.                                                         *)
(***************************************************************************)
\* prisma.user.findFirst({ where }): string equality is case sensitive.
findByEmail(email) ==
  IF \E u \in users : u.email = email
  THEN CHOOSE u \in users : u.email = email
  ELSE NoUser

findById(id) ==
  IF \E u \in users : u.id = id
  THEN CHOOSE u \in users : u.id = id
  ELSE NoUser

\* Variant: the lookup never finds anybody.
validateUser_neverFinds(email) == NoUser

\* UsersService.validateUser
validateUser(email) == findByEmail(email)

\* The unique index on User.email.
EmailTaken(email) == \E u \in users : u.email = email

(***************************************************************************)
(* What a client can put in the Authorization header: nothing, a token it  *)
(* was issued, that token with its payload altered, a token signed with a  *)
(* key of its own, garbage, or a token under another scheme.  A public     *)
(* route is tried without a header, with garbage and with a valid token.   *)
(***************************************************************************)
Tampered(t) == [t EXCEPT !.payload.sub = t.payload.sub + 1]
Forged(t) == [t EXCEPT !.sig = Sign(t.payload, "client-secret")]

HeaderChoices(route) ==
  { NoHeader, Header("Bearer", MalformedToken) }
    \cup { Header("Bearer", t) : t \in issued }
    \cup IF IsPublic(route) THEN {}
         ELSE { Header("Bearer", Tampered(t)) : t \in issued }
                \cup { Header("Bearer", Forged(t)) : t \in issued }
                \cup { Header("Basic", t) : t \in issued }

SignUpPasswords == { "secret1" }

\* The new title of an update: none, or one whose slug no seeded post has.
UpdateTitles == { NoTitle, <<"w", "e", "b", "l", "o", "g">> }

BodyChoices(route) ==
  CASE route = "sign-up" ->
         { [NoBody EXCEPT !.email = e, !.password = p, !.firstName = FirstNameInput] :
             e \in EmailInputs, p \in SignUpPasswords }
    [] route = "sign-in" ->
         { [NoBody EXCEPT !.email = e, !.password = p] :
             e \in EmailInputs, p \in PasswordInputs }
    [] route = "google-callback" ->
         { [NoBody EXCEPT !.email = e, !.firstName = FirstNameInput,
                          !.providerId = GoogleProviderId] : e \in EmailInputs }
    [] route = "delete-user" ->
         { [NoBody EXCEPT !.id = i] : i \in 1..nextId }
    [] route = "get-profile" ->
         { [NoBody EXCEPT !.id = i] : i \in 1..nextId }
    [] route \in { "follow", "unfollow" } ->
         { [NoBody EXCEPT !.id = i, !.followedId = j] :
             i \in 1..(nextId - 1), j \in 1..nextId }
    [] route = "create-post" ->
         { [NoBody EXCEPT !.title = toLowerCase(t), !.cover = TRUE] : t \in TitleInputs }
    [] route = "delete-post" ->
         { [NoBody EXCEPT !.id = i] : i \in { q.id : q \in posts } \cup { nextId } }
    [] route = "update-post" ->
         { [NoBody EXCEPT !.slug = slug(t), !.title = n, !.cover = c] :
             t \in TitleInputs, n \in UpdateTitles, c \in BOOLEAN }
    [] route = "get-user-posts" ->
         { [NoBody EXCEPT !.id = i] : i \in { u.id : u \in users } \cup { nextId } }
    [] OTHER -> { NoBody }

\* First label of the code that runs once the access guard lets a request in.
Entry(route) ==
  CASE route = "sign-up" -> "register"
    [] route = "sign-in" -> "login"
    [] route = "google-callback" -> "google_validate"
    [] route = "current-user" -> "current_user"
    [] route = "delete-user" -> "remove_find"
    [] route = "follow" -> "follow"
    [] route = "unfollow" -> "unfollow"
    [] route = "get-profile" -> "profile"
    [] route = "create-post" -> "post_create_find"
    [] route = "delete-post" -> "post_remove_find"
    [] route = "update-post" -> "post_update_find"
    [] route = "get-user-posts" -> "user_posts_find"

\* The request ends with an exception or an envelope of the given status.
Finish(r, status) ==
  [req EXCEPT ![r].pc = "done",
              ![r].res = [status |-> status, accessToken |-> NoToken, message |-> "fixed"]]

\* Handlers never look at the Authorization header: once a handler has taken
\* its first step the header is no longer part of the request's state.
Handled(r) == [req EXCEPT ![r].authorization = NoHeader]

Return(r, status) ==
  [Handled(r) EXCEPT ![r].pc = "done",
                     ![r].res = [status |-> status, accessToken |-> NoToken,
                                 message |-> "fixed"]]

\* The handler ends with the given status and a message of the given origin.
ReturnWith(r, status, message) ==
  [Handled(r) EXCEPT ![r].pc = "done",
                     ![r].res = [status |-> status, accessToken |-> NoToken,
                                 message |-> message]]

(***************************************************************************)
(* A client sends a request.                                               *)
(***************************************************************************)
Free(r) == req[r].pc = "idle"

(***************************************************************************)
(* The response goes out as soon as the handler returns or throws: a       *)
(* finished request is visible for one state, then its connection is free. *)
(* Nothing else is scheduled in between.                                   *)
(***************************************************************************)
Responding == \E r \in Reqs : req[r].pc = "done"

\* Connections are interchangeable: a new request takes the lowest free one.
Arrive(r) ==
  /\ ~Responding
  /\ Free(r)
  /\ \A q \in Reqs : q < r => ~Free(q)
  /\ reqCount < MaxRequests
  /\ \E route \in Routes :
       req' = [req EXCEPT ![r] = [IdleReq EXCEPT !.pc = "guard", !.route = route]]
  /\ reqCount' = reqCount + 1
  /\ UNCHANGED <<posts, files, users, profiles, accounts, follows, nextId, issued, now>>

(***************************************************************************)
(* The dispatcher runs the access guard, then enters the handler.  The     *)
(* header, the route parameters and the body the request came with are     *)
(* inputs of this step, the first to read the request.                     *)
(***************************************************************************)
Guard(r) ==
  /\ ~Responding
  /\ req[r].pc = "guard"
  /\ \E h \in HeaderChoices(req[r].route) :
       LET verdict == IF AccessGuardApplies(req[r].route)
                      THEN canActivate(req[r].route, h, now)
                      ELSE [allow |-> TRUE, user |-> NoPayload]
       IN
         IF verdict.allow
         THEN \E b \in BodyChoices(req[r].route) :
                req' = [req EXCEPT ![r].pc = Entry(req[r].route),
                                   ![r].authorization = h,
                                   ![r].body = b,
                                   ![r].user = verdict.user,
                                   ![r].reached = (req[r].route # "google-callback")]
         ELSE req' = [Finish(r, "Unauthorized") EXCEPT ![r].authorization = h]
  /\ UNCHANGED <<posts, files, users, profiles, accounts, follows, nextId, issued, now, reqCount>>

\* bcrypt.genSalt(): a salt no earlier digest was made with.  At most one
\* digest is made per user row, so the next primary key is such a salt.
genSalt == nextId

(***************************************************************************)
(* SignUpDto: the validation pipe of POST /auth/sign-up lower-cases the    *)
(* first name and the email.                                               *)
(***************************************************************************)
SignUpDto(body) ==
  [body EXCEPT !.firstName = toLowerCase(body.firstName),
               !.email = toLowerCase(body.email)]

(***************************************************************************)
(* UsersService.createUser.  One nested prisma.user.create writes the      *)
(* User, its Profile and, for a provider login, its Account in a single    *)
(* statement; the unique index on email makes the statement throw.         *)
(* password = "" and providerId = "" stand for an absent input.            *)
(***************************************************************************)
\* Variant: the submitted password is stored instead of its digest.
createUser_plainPassword(email, password, firstName, providerId, providerType, salt, via) ==
  LET newUser == [id |-> nextId, email |-> email,
                  password |-> IF password # "" THEN RawString(password)
                               ELSE NullPassword,
                  via |-> via]
  IN  IF EmailTaken(email)
      THEN [threw |-> TRUE, newUser |-> NoUser, users |-> users,
            profiles |-> profiles, accounts |-> accounts]
      ELSE [threw |-> FALSE, newUser |-> newUser,
            users |-> users \cup { newUser },
            profiles |-> profiles \cup { [userId |-> nextId, firstName |-> firstName] },
            accounts |-> IF providerId # ""
                         THEN accounts \cup { [userId |-> nextId,
                                               providerType |-> providerType,
                                               providerId |-> providerId] }
                         ELSE accounts]

\* Variant: the nested account write is left out of the statement.
createUser_noAccount(email, password, firstName, providerId, providerType, salt, via) ==
  LET newUser == [id |-> nextId, email |-> email,
                  password |-> IF password # "" THEN bcryptHash(password, salt)
                               ELSE NullPassword,
                  via |-> via]
  IN  IF EmailTaken(email)
      THEN [threw |-> TRUE, newUser |-> NoUser, users |-> users,
            profiles |-> profiles, accounts |-> accounts]
      ELSE [threw |-> FALSE, newUser |-> newUser,
            users |-> users \cup { newUser },
            profiles |-> profiles \cup { [userId |-> nextId, firstName |-> firstName] },
            accounts |-> accounts]

\* Variant: the provider-assigned id is not the one stored.
createUser_otherProviderId(email, password, firstName, providerId, providerType, salt, via) ==
  LET newUser == [id |-> nextId, email |-> email,
                  password |-> IF password # "" THEN bcryptHash(password, salt)
                               ELSE NullPassword,
                  via |-> via]
  IN  IF EmailTaken(email)
      THEN [threw |-> TRUE, newUser |-> NoUser, users |-> users,
            profiles |-> profiles, accounts |-> accounts]
      ELSE [threw |-> FALSE, newUser |-> newUser,
            users |-> users \cup { newUser },
            profiles |-> profiles \cup { [userId |-> nextId, firstName |-> firstName] },
            accounts |-> IF providerId # ""
                         THEN accounts \cup { [userId |-> nextId,
                                               providerType |-> providerType,
                                               providerId |-> "" ] }
                         ELSE accounts]

\* Variant: the nested profile write is left out of the statement.
createUser_noProfile(email, password, firstName, providerId, providerType, salt, via) ==
  LET newUser == [id |-> nextId, email |-> email,
                  password |-> IF password # "" THEN bcryptHash(password, salt)
                               ELSE NullPassword,
                  via |-> via]
  IN  IF EmailTaken(email)
      THEN [threw |-> TRUE, newUser |-> NoUser, users |-> users,
            profiles |-> profiles, accounts |-> accounts]
      ELSE [threw |-> FALSE, newUser |-> newUser,
            users |-> users \cup { newUser },
            profiles |-> profiles,
            accounts |-> IF providerId # ""
                         THEN accounts \cup { [userId |-> nextId,
                                               providerType |-> providerType,
                                               providerId |-> providerId] }
                         ELSE accounts]

createUser(email, password, firstName, providerId, providerType, salt, via) ==
  LET hashedPassword == IF password # "" THEN bcryptHash(password, salt)
                        ELSE NullPassword
      newUser == [id |-> nextId, email |-> email, password |-> hashedPassword,
                  via |-> via]
  IN  IF EmailTaken(email)
      THEN [threw |-> TRUE, newUser |-> NoUser, users |-> users,
            profiles |-> profiles, accounts |-> accounts]
      ELSE [threw |-> FALSE, newUser |-> newUser,
            users |-> users \cup { newUser },
            profiles |-> profiles \cup { [userId |-> nextId, firstName |-> firstName] },
            accounts |-> IF providerId # ""
                         THEN accounts \cup { [userId |-> nextId,
                                               providerType |-> providerType,
                                               providerId |-> providerId] }
                         ELSE accounts]

(***************************************************************************)
(* AuthenticationService.register                                          *)
(***************************************************************************)
RegisterValidate(r) ==
  /\ ~Responding
  /\ req[r].pc = "register"
  /\ LET signUpDto == SignUpDto(req[r].body)
         user == validateUser(signUpDto.email)
     IN  IF user # NoUser
         THEN req' = [Return(r, "Conflict") EXCEPT ![r].found = user]
         ELSE req' = [Handled(r) EXCEPT ![r].pc = "register_create", ![r].body = signUpDto]
  /\ UNCHANGED <<posts, files, users, profiles, accounts, follows, nextId, issued, now, reqCount>>

RegisterCreate(r) ==
  /\ ~Responding
  /\ req[r].pc = "register_create"
  /\ LET out == createUser(req[r].body.email, req[r].body.password,
                           req[r].body.firstName, "", "", genSalt, "local")
     IN    /\ users' = out.users
           /\ profiles' = out.profiles
           /\ accounts' = out.accounts
           /\ nextId' = IF out.threw THEN nextId ELSE nextId + 1
           /\ req' = IF out.threw
                     THEN Return(r, "Internal")
                     ELSE [Return(r, "Created") EXCEPT ![r].found = out.newUser]
  /\ UNCHANGED <<posts, files, follows, issued, now, reqCount>>

(***************************************************************************)
(* AuthenticationService.login                                             *)
(***************************************************************************)
\* Variant: the earlier login, which only tested `!user`.
loginRejects_userOnly(user) == user = NoUser

\* `!user || !user.password`
loginRejects(user) == user = NoUser \/ user.password = NullPassword

\* Variant: the subject is read from a field the user row does not have.
jwtPayload_noSubject(user) == [sub |-> 0, email |-> user.email]

\* `{ sub: user.id, email: user.email }`
jwtPayload(user) == [sub |-> user.id, email |-> user.email]

LoginValidate(r) ==
  /\ ~Responding
  /\ req[r].pc = "login"
  /\ LET user == validateUser(req[r].body.email) IN
       IF loginRejects(user)
       THEN req' = [Return(r, "Unauthorized") EXCEPT ![r].found = user]
       ELSE req' = [Handled(r) EXCEPT ![r].pc = "login_compare", ![r].found = user]
  /\ UNCHANGED <<posts, files, users, profiles, accounts, follows, nextId, issued, now, reqCount>>

LoginCompare(r) ==
  /\ ~Responding
  /\ req[r].pc = "login_compare"
  /\ LET user == req[r].found
         passwordMatch == bcryptCompare(req[r].body.password, user.password)
         accessToken == signAsync(jwtPayload(user), now)
     IN  CASE passwordMatch = "throw" ->
                /\ req' = Return(r, "Internal")
                /\ issued' = issued
           [] passwordMatch = "false" ->
                /\ req' = Return(r, "Unauthorized")
                /\ issued' = issued
           [] OTHER ->
                /\ req' = [Handled(r) EXCEPT ![r].pc = "done",
                             ![r].res = [status |-> "Created",
                                         accessToken |-> accessToken,
                                         message |-> "fixed"]]
                /\ issued' = issued \cup { accessToken }
  /\ UNCHANGED <<posts, files, users, profiles, accounts, follows, nextId, now, reqCount>>

(***************************************************************************)
(* GoogleStrategy.validate, run by the route's own guard on the OAuth      *)
(* callback.  payloadData is declared and never initialised, so the        *)
(* assignment to payloadData.id throws on both branches, after the rows    *)
(* of a first-time login have been written.                                *)
(***************************************************************************)
\* Variant: every OAuth login is taken for a first login.
firstOAuthLogin_always(user) == TRUE

\* `if (!user)`
firstOAuthLogin(user) == user = NoUser

GoogleValidate(r) ==
  /\ ~Responding
  /\ req[r].pc = "google_validate"
  /\ LET user == validateUser(req[r].body.email) IN
       IF firstOAuthLogin(user)
       THEN req' = [Handled(r) EXCEPT ![r].pc = "google_create"]
       ELSE req' = [Return(r, "Internal") EXCEPT ![r].found = user]
  /\ UNCHANGED <<posts, files, users, profiles, accounts, follows, nextId, issued, now, reqCount>>

GoogleCreate(r) ==
  /\ ~Responding
  /\ req[r].pc = "google_create"
  /\ LET out == createUser(req[r].body.email, "", req[r].body.firstName,
                           req[r].body.providerId, "google", genSalt, "google")
     IN    /\ users' = out.users
           /\ profiles' = out.profiles
           /\ accounts' = out.accounts
           /\ nextId' = IF out.threw THEN nextId ELSE nextId + 1
           /\ req' = [Return(r, "Internal") EXCEPT ![r].found = out.newUser]
  /\ UNCHANGED <<posts, files, follows, issued, now, reqCount>>

(***************************************************************************)
(* UsersService.getCurrentUser behind GET /users/current-user              *)
(***************************************************************************)
\* Variant: a missing user is reported as NotFound.
getCurrentUser_notFound(id) ==
  LET user == findById(id) IN
    IF user = NoUser THEN [status |-> "NotFound", data |-> NoUser]
                     ELSE [status |-> "OK", data |-> user]

\* `if (!user) throw new UnauthorizedException()`, else the envelope with
\* the user as data.
getCurrentUser(id) ==
  LET user == findById(id) IN
    IF user = NoUser THEN [status |-> "Unauthorized", data |-> NoUser]
                     ELSE [status |-> "OK", data |-> user]

GetCurrentUser(r) ==
  /\ ~Responding
  /\ req[r].pc = "current_user"
  /\ LET result == getCurrentUser(req[r].user.sub) IN
       req' = [Return(r, result.status) EXCEPT ![r].found = result.data]
  /\ UNCHANGED <<posts, files, users, profiles, accounts, follows, nextId, issued, now, reqCount>>

(***************************************************************************)
(* UsersService.removeUser behind DELETE /users/:id.  Profile, Account and *)
(* Follows rows, and the user's Post rows, go with their user (onDelete:    *)
(* Cascade); the cover files of the posts stay on disk.                    *)
(***************************************************************************)
\* Variant: only the edges the user is the follower of go with it.
cascadeFollows_followerOnly(id) == { f \in follows : f.followerId # id }

\* Follows.follower and Follows.following both cascade.
cascadeFollows(id) == { f \in follows : f.followerId # id /\ f.followingId # id }

\* Variant: the controller deletes the owner of the token.
deleteUserWhere_tokenOwner(id, sub) == sub

\* `return this.usersService.removeUser({ id })`: the `where` the controller
\* builds for a request with path parameter id and token subject sub.
deleteUserWhere(id, sub) == id

RemoveFind(r) ==
  /\ ~Responding
  /\ req[r].pc = "remove_find"
  /\ LET user == findById(deleteUserWhere(req[r].body.id, req[r].user.sub)) IN
       IF user = NoUser
       THEN req' = Return(r, "NotFound")
       ELSE req' = [Handled(r) EXCEPT ![r].pc = "remove_delete", ![r].found = user]
  /\ UNCHANGED <<posts, files, users, profiles, accounts, follows, nextId, issued, now, reqCount>>

RemoveDelete(r) ==
  /\ ~Responding
  /\ req[r].pc = "remove_delete"
  /\ LET id == deleteUserWhere(req[r].body.id, req[r].user.sub) IN
       IF findById(id) = NoUser
       THEN /\ req' = Return(r, "Internal")
            /\ UNCHANGED <<users, profiles, accounts, follows, posts>>
       ELSE /\ users' = { u \in users : u.id # id }
            /\ profiles' = { p \in profiles : p.userId # id }
            /\ accounts' = { a \in accounts : a.userId # id }
            /\ follows' = cascadeFollows(id)
            /\ posts' = { p \in posts : p.authorId # id }
            /\ req' = Return(r, "OK")
  /\ UNCHANGED <<files, nextId, issued, now, reqCount>>

(***************************************************************************)
(* UsersService.getUserProfile behind GET /users/:id/profile.  The user is *)
(* looked up, then its profile; reading a field of a missing profile       *)
(* throws a TypeError, which the catch block turns into an internal error. *)
(***************************************************************************)
ProfileFindUser(r) ==
  /\ ~Responding
  /\ req[r].pc = "profile"
  /\ LET user == findById(req[r].body.id) IN
       IF user = NoUser
       THEN req' = Return(r, "NotFound")
       ELSE req' = [Handled(r) EXCEPT ![r].pc = "profile_read", ![r].found = user]
  /\ UNCHANGED <<posts, files, users, profiles, accounts, follows, nextId, issued, now, reqCount>>

ProfileRead(r) ==
  /\ ~Responding
  /\ req[r].pc = "profile_read"
  /\ IF \E p \in profiles : p.userId = req[r].body.id
     THEN req' = Return(r, "OK")
     ELSE req' = Return(r, "Internal")
  /\ UNCHANGED <<posts, files, users, profiles, accounts, follows, nextId, issued, now, reqCount>>

(***************************************************************************)
(* POST /users/:id/follow/:followedId and UsersService.followUser.         *)
(* The catch block rethrows NotFoundException, turns the Prisma error      *)
(* P2025 into an internal error and has no throw or return for any other   *)
(* known Prisma error: the handler then returns undefined, written         *)
(* "Nothing".                                                              *)
(***************************************************************************)
Edge(followerId, followingId) == [followerId |-> followerId, followingId |-> followingId]

\* Variant: follows.create does not check that the endpoints exist.
FollowsCreateOutcomes_noForeignKey(followerId, followingId) ==
  IF Edge(followerId, followingId) \in follows THEN { "P2002" } ELSE { "ok" }

\* What the storage layer answers to follows.create: the composite key
\* rejects a duplicate (P2002); a missing endpoint is reported as a missing
\* record (P2025) or as a foreign key violation (P2003).
FollowsCreateOutcomes(followerId, followingId) ==
  IF findById(followerId) = NoUser \/ findById(followingId) = NoUser
  THEN { "P2025", "P2003" }
  ELSE IF Edge(followerId, followingId) \in follows THEN { "P2002" }
  ELSE { "ok" }

\* The catch block of followUser and of unfollowUser, for a known Prisma error.
followCatch(code) == IF code = "P2025" THEN "Internal" ELSE "Nothing"

\* `throw new InternalServerErrorException(error.message)`: the response
\* carries the text of the Prisma error.
followCatchMessage(code) == IF code = "P2025" THEN "storage" ELSE ""

\* Variant: the controller lets any authenticated user act for :id.
isCurrentUser_always(sub, id) == TRUE

\* `const isCurrentUser = req.user.sub === id` in the controller.
isCurrentUser(sub, id) == sub = id

FollowFind(r) ==
  /\ ~Responding
  /\ req[r].pc = "follow"
  /\ IF ~isCurrentUser(req[r].user.sub, req[r].body.id)
     THEN req' = Return(r, "Unauthorized")
     ELSE LET user == findById(req[r].body.id) IN
            IF user = NoUser
            THEN req' = Return(r, "NotFound")
            ELSE req' = [Handled(r) EXCEPT ![r].pc = "follow_create", ![r].found = user]
  /\ UNCHANGED <<posts, files, users, profiles, accounts, follows, nextId, issued, now, reqCount>>

FollowCreate(r) ==
  /\ ~Responding
  /\ req[r].pc = "follow_create"
  /\ \E outcome \in FollowsCreateOutcomes(req[r].found.id, req[r].body.followedId) :
       IF outcome = "ok"
       THEN /\ follows' = follows \cup { Edge(req[r].found.id, req[r].body.followedId) }
            /\ req' = Return(r, "OK")
       ELSE /\ follows' = follows
            /\ req' = ReturnWith(r, followCatch(outcome), followCatchMessage(outcome))
  /\ UNCHANGED <<posts, files, users, profiles, accounts, nextId, issued, now, reqCount>>

(***************************************************************************)
(* DELETE /users/:id/unfollow/:followedId and UsersService.unfollowUser.   *)
(* follows.delete of a missing row throws P2025.                           *)
(***************************************************************************)
UnfollowFind(r) ==
  /\ ~Responding
  /\ req[r].pc = "unfollow"
  /\ IF ~isCurrentUser(req[r].user.sub, req[r].body.id)
     THEN req' = Return(r, "Unauthorized")
     ELSE LET user == findById(req[r].body.id) IN
            IF user = NoUser
            THEN req' = Return(r, "NotFound")
            ELSE req' = [Handled(r) EXCEPT ![r].pc = "unfollow_delete", ![r].found = user]
  /\ UNCHANGED <<posts, files, users, profiles, accounts, follows, nextId, issued, now, reqCount>>

UnfollowDelete(r) ==
  /\ ~Responding
  /\ req[r].pc = "unfollow_delete"
  /\ LET edge == Edge(req[r].found.id, req[r].body.followedId) IN
       IF edge \in follows
       THEN /\ follows' = follows \ { edge }
            /\ req' = Return(r, "OK")
       ELSE /\ follows' = follows
            /\ req' = ReturnWith(r, followCatch("P2025"), followCatchMessage("P2025"))
  /\ UNCHANGED <<posts, files, users, profiles, accounts, nextId, issued, now, reqCount>>

(***************************************************************************)
(* PostsService and StorageService.  A cover file is named after the slug  *)
(* of its post; its content is identified by the user who uploaded it.     *)
(* The tags of a post play no part in what follows and are left out.       *)
(***************************************************************************)
\* prisma.post.findFirst({ where: { slug } })
findOneBySlug(postSlug) ==
  IF \E q \in posts : q.slug = postSlug
  THEN CHOOSE q \in posts : q.slug = postSlug
  ELSE NoPost

\* Variant: the author of the post is not part of the criteria.
findOneOf_anyAuthor(key, value, authorId) ==
  IF \E q \in posts : q[key] = value
  THEN CHOOSE q \in posts : q[key] = value
  ELSE NoPost

\* prisma.post.findFirst({ where: { AND: [{ id }, { authorId }] } }) of
\* deletePost and ({ AND: [{ slug }, { authorId }] }) of updatePost.
findOneOf(key, value, authorId) ==
  IF \E q \in posts : q[key] = value /\ q.authorId = authorId
  THEN CHOOSE q \in posts : q[key] = value /\ q.authorId = authorId
  ELSE NoPost

\* StorageService.uploadFile: fs.writeFile replaces the file at the path.
uploadFile(path, content) ==
  { f \in files : f.path # path } \cup { [path |-> path, content |-> content] }

\* StorageService.removeFile: unlink the file if it exists.
removeFile(path) == { f \in files : f.path # path }

\* Variant: no lookup of the slug before the upload.
slugTaken_never(postSlug) == FALSE

\* `const post = await this.findOne({ slug: postSlug }); if (post) ...`
slugTaken(postSlug) == findOneBySlug(postSlug) # NoPost

\* PostsService.create: the lookup of the slug.
PostCreateFind(r) ==
  /\ ~Responding
  /\ req[r].pc = "post_create_find"
  /\ IF slugTaken(slug(req[r].body.title))
     THEN req' = Return(r, "Conflict")
     ELSE req' = [Handled(r) EXCEPT ![r].pc = "post_create_upload"]
  /\ UNCHANGED <<users, profiles, accounts, follows, posts, files, nextId, issued, now,
                 reqCount>>

\* PostsService.create: the cover is written to disk.
PostCreateUpload(r) ==
  /\ ~Responding
  /\ req[r].pc = "post_create_upload"
  /\ files' = uploadFile(slug(req[r].body.title), req[r].user.sub)
  /\ req' = [req EXCEPT ![r].pc = "post_create"]
  /\ UNCHANGED <<users, profiles, accounts, follows, posts, nextId, issued, now, reqCount>>

\* PostsService.create: prisma.post.create.  A missing author (P2025) and a
\* slug taken in the meantime (P2002, slug is @unique) end in the catch
\* block's internal error.
PostCreate(r) ==
  /\ ~Responding
  /\ req[r].pc = "post_create"
  /\ LET postSlug == slug(req[r].body.title) IN
       IF findById(req[r].user.sub) = NoUser \/ findOneBySlug(postSlug) # NoPost
       THEN /\ req' = Return(r, "Internal")
            /\ UNCHANGED <<posts, nextId>>
       ELSE /\ posts' = posts \cup { [id |-> nextId, authorId |-> req[r].user.sub,
                                     slug |-> postSlug, title |-> req[r].body.title,
                                     cover |-> postSlug] }
            /\ nextId' = nextId + 1
            /\ req' = Return(r, "Created")
  /\ UNCHANGED <<users, profiles, accounts, follows, files, issued, now, reqCount>>

\* PostsController.deletePost and PostsService.remove: the lookup.
PostRemoveFind(r) ==
  /\ ~Responding
  /\ req[r].pc = "post_remove_find"
  /\ LET post == findOneOf("id", req[r].body.id, req[r].user.sub) IN
       IF post = NoPost
       THEN req' = Return(r, "NotFound")
       ELSE req' = [Handled(r) EXCEPT ![r].pc = "post_remove_delete", ![r].post = post]
  /\ UNCHANGED <<users, profiles, accounts, follows, posts, files, nextId, issued, now,
                 reqCount>>

\* PostsService.remove: prisma.post.delete, then the cover file is removed.
\* A row that is gone by now (P2025) ends in the internal error.
PostRemoveDelete(r) ==
  /\ ~Responding
  /\ req[r].pc = "post_remove_delete"
  /\ IF \E q \in posts : q.id = req[r].post.id
     THEN /\ posts' = { q \in posts : q.id # req[r].post.id }
          /\ files' = removeFile(req[r].post.cover)
          /\ req' = Return(r, "OK")
     ELSE /\ req' = Return(r, "Internal")
          /\ UNCHANGED <<posts, files>>
  /\ UNCHANGED <<users, profiles, accounts, follows, nextId, issued, now, reqCount>>

\* `const postSlug = title ? slug(title) : undefined`
updateSlug(title) == IF title = NoTitle THEN UndefinedSlug ELSE slug(title)

\* PostsController.updatePost and PostsService.updatePost: the lookup; when
\* a cover comes with the request the previous cover file is removed.
PostUpdateFind(r) ==
  /\ ~Responding
  /\ req[r].pc = "post_update_find"
  /\ LET post == findOneOf("slug", req[r].body.slug, req[r].user.sub) IN
       IF post = NoPost
       THEN /\ req' = Return(r, "NotFound")
            /\ files' = files
       ELSE IF req[r].body.cover
       THEN /\ files' = removeFile(post.cover)
            /\ req' = [Handled(r) EXCEPT ![r].pc = "post_update_upload", ![r].post = post]
       ELSE /\ files' = files
            /\ req' = [Handled(r) EXCEPT ![r].pc = "post_update", ![r].post = post]
  /\ UNCHANGED <<users, profiles, accounts, follows, posts, nextId, issued, now, reqCount>>

\* PostsService.updatePost: the new cover is written to disk.
PostUpdateUpload(r) ==
  /\ ~Responding
  /\ req[r].pc = "post_update_upload"
  /\ files' = uploadFile(updateSlug(req[r].body.title), req[r].user.sub)
  /\ req' = [req EXCEPT ![r].pc = "post_update"]
  /\ UNCHANGED <<users, profiles, accounts, follows, posts, nextId, issued, now, reqCount>>

\* PostsService.updatePost: prisma.post.update.  Fields that are undefined
\* keep their value.  A row that is gone (P2025) and a slug another post has
\* (P2002) end in the internal error.
PostUpdate(r) ==
  /\ ~Responding
  /\ req[r].pc = "post_update"
  /\ LET id == req[r].post.id
         title == req[r].body.title
     IN
       IF \/ ~\E q \in posts : q.id = id
          \/ title # NoTitle /\ \E q \in posts : q.id # id /\ q.slug = slug(title)
       THEN /\ req' = Return(r, "Internal")
            /\ posts' = posts
       ELSE /\ posts' =
                 { IF q.id # id THEN q
                   ELSE [q EXCEPT !.title = IF title = NoTitle THEN @ ELSE title,
                                  !.slug = IF title = NoTitle THEN @ ELSE slug(title),
                                  !.cover = IF req[r].body.cover
                                            THEN updateSlug(title) ELSE @] :
                   q \in posts }
            /\ req' = Return(r, "OK")
  /\ UNCHANGED <<users, profiles, accounts, follows, files, nextId, issued, now, reqCount>>

(***************************************************************************)
(* GET /users/:id/posts and UsersService.getUserPost.                      *)
(***************************************************************************)
\* `where: { id: user.id }`, the criteria getUserPost hands to findMany; the
\* `where` of the controller is not used.
userPostsWhere(user) == [key |-> "id", value |-> user.id]

\* PostsService.findMany: prisma.post.findMany({ where }).
findMany(where) == { q \in posts : q[where.key] = where.value }

UserPostsFind(r) ==
  /\ ~Responding
  /\ req[r].pc = "user_posts_find"
  /\ LET user == findById(req[r].body.id) IN
       IF user = NoUser
       THEN req' = Return(r, "NotFound")
       ELSE req' = [Handled(r) EXCEPT ![r].pc = "user_posts_read", ![r].found = user]
  /\ UNCHANGED <<users, profiles, accounts, follows, posts, files, nextId, issued, now,
                 reqCount>>

UserPostsRead(r) ==
  /\ ~Responding
  /\ req[r].pc = "user_posts_read"
  /\ req' = [Return(r, "OK") EXCEPT ![r].data = findMany(userPostsWhere(req[r].found))]
  /\ UNCHANGED <<users, profiles, accounts, follows, posts, files, nextId, issued, now,
                 reqCount>>

(***************************************************************************)
(* Time passes.  Only the expiry test of a token reads the clock, so it    *)
(* advances while some issued token has not expired yet.                   *)
(***************************************************************************)
Tick ==
  /\ ~Responding
  /\ now < MaxTime
  /\ \E t \in issued : now < t.payload.exp
  /\ now' = now + 1
  /\ UNCHANGED <<posts, files, users, profiles, accounts, follows, nextId, issued, req, reqCount>>

Respond(r) ==
  /\ req[r].pc = "done"
  /\ req' = [req EXCEPT ![r] = IdleReq]
  /\ UNCHANGED <<posts, files, users, profiles, accounts, follows, nextId, issued, now, reqCount>>

Next ==
  \/ \E r \in Reqs : Respond(r)
  \/ \E r \in Reqs : Arrive(r)
  \/ \E r \in Reqs : Guard(r)
  \/ \E r \in Reqs : RegisterValidate(r)
  \/ \E r \in Reqs : RegisterCreate(r)
  \/ \E r \in Reqs : LoginValidate(r)
  \/ \E r \in Reqs : LoginCompare(r)
  \/ \E r \in Reqs : GoogleValidate(r)
  \/ \E r \in Reqs : GoogleCreate(r)
  \/ \E r \in Reqs : GetCurrentUser(r)
  \/ \E r \in Reqs : RemoveFind(r)
  \/ \E r \in Reqs : RemoveDelete(r)
  \/ \E r \in Reqs : ProfileFindUser(r)
  \/ \E r \in Reqs : ProfileRead(r)
  \/ \E r \in Reqs : FollowFind(r)
  \/ \E r \in Reqs : FollowCreate(r)
  \/ \E r \in Reqs : UnfollowFind(r)
  \/ \E r \in Reqs : UnfollowDelete(r)
  \/ Tick

Spec == Init /\ [][Next]_vars

(***************************************************************************)
(* The service started on a database that already holds accounts: the      *)
(* store as one sign-up, one first OAuth login and one sign-in of the      *)
(* signed-up user leave it (Spec reaches this very state with three        *)
(* requests), with the token of that sign-in in the client's hands.        *)
(***************************************************************************)
SeedLocal == [id |-> 1, email |-> <<"a", "@", "x">>,
              password |-> bcryptHash("secret1", 1), via |-> "local"]
SeedOAuth == [id |-> 2, email |-> <<"b", "@", "x">>,
              password |-> NullPassword, via |-> "google"]
SeedToken == signAsync(jwtPayload(SeedLocal), 0)

InitPopulated ==
  /\ users = { SeedLocal, SeedOAuth }
  /\ profiles = { [userId |-> 1, firstName |-> toLowerCase(FirstNameInput)],
                  [userId |-> 2, firstName |-> FirstNameInput] }
  /\ accounts = { [userId |-> 2, providerType |-> "google",
                   providerId |-> GoogleProviderId] }
  /\ follows = {}
  /\ posts = {}
  /\ files = {}
  /\ nextId = 3
  /\ issued = { SeedToken }
  /\ now = 0
  /\ req = [r \in Reqs |-> IdleReq]
  /\ reqCount = 0

\* The routes of the users controller: the clients of this service hold
\* their accounts already and send no sign-up, sign-in or OAuth request.
UsersRoutes == { "current-user", "delete-user", "follow", "unfollow", "get-profile" }

ArriveUsers(r) ==
  /\ ~Responding
  /\ Free(r)
  /\ \A q \in Reqs : q < r => ~Free(q)
  /\ reqCount < MaxRequests
  /\ \E route \in UsersRoutes :
       req' = [req EXCEPT ![r] = [IdleReq EXCEPT !.pc = "guard", !.route = route]]
  /\ reqCount' = reqCount + 1
  /\ UNCHANGED <<posts, files, users, profiles, accounts, follows, nextId, issued, now>>

NextPopulated ==
  \/ \E r \in Reqs : Respond(r)
  \/ \E r \in Reqs : ArriveUsers(r)
  \/ \E r \in Reqs : Guard(r)
  \/ \E r \in Reqs : GetCurrentUser(r)
  \/ \E r \in Reqs : RemoveFind(r)
  \/ \E r \in Reqs : RemoveDelete(r)
  \/ \E r \in Reqs : ProfileFindUser(r)
  \/ \E r \in Reqs : ProfileRead(r)
  \/ \E r \in Reqs : FollowFind(r)
  \/ \E r \in Reqs : FollowCreate(r)
  \/ \E r \in Reqs : UnfollowFind(r)
  \/ \E r \in Reqs : UnfollowDelete(r)
  \/ Tick

SpecPopulated == InitPopulated /\ [][NextPopulated]_vars

(***************************************************************************)
(* The same database after the signed-up user created a post: the clients  *)
(* create posts, list the posts of a user and delete users.                *)
(***************************************************************************)
SeedPost == [id |-> 3, authorId |-> 1, slug |-> slug(<<"a", " ", "b", "l", "o", "g">>),
             title |-> <<"a", " ", "b", "l", "o", "g">>,
             cover |-> slug(<<"a", " ", "b", "l", "o", "g">>)]

InitPosts ==
  /\ users = { SeedLocal, SeedOAuth }
  /\ profiles = { [userId |-> 1, firstName |-> toLowerCase(FirstNameInput)],
                  [userId |-> 2, firstName |-> FirstNameInput] }
  /\ accounts = { [userId |-> 2, providerType |-> "google",
                   providerId |-> GoogleProviderId] }
  /\ follows = {}
  /\ posts = { SeedPost }
  /\ files = { [path |-> SeedPost.cover, content |-> 1] }
  /\ nextId = 4
  /\ issued = { SeedToken }
  /\ now = 0
  /\ req = [r \in Reqs |-> IdleReq]
  /\ reqCount = 0

PostsSliceRoutes == { "create-post", "get-user-posts", "delete-user" }

ArrivePosts(r) ==
  /\ ~Responding
  /\ Free(r)
  /\ \A q \in Reqs : q < r => ~Free(q)
  /\ reqCount < MaxRequests
  /\ \E route \in PostsSliceRoutes :
       req' = [req EXCEPT ![r] = [IdleReq EXCEPT !.pc = "guard", !.route = route]]
  /\ reqCount' = reqCount + 1
  /\ UNCHANGED <<users, profiles, accounts, follows, posts, files, nextId, issued, now>>

NextPosts ==
  \/ \E r \in Reqs : Respond(r)
  \/ \E r \in Reqs : ArrivePosts(r)
  \/ \E r \in Reqs : Guard(r)
  \/ \E r \in Reqs : PostCreateFind(r)
  \/ \E r \in Reqs : PostCreateUpload(r)
  \/ \E r \in Reqs : PostCreate(r)
  \/ \E r \in Reqs : UserPostsFind(r)
  \/ \E r \in Reqs : UserPostsRead(r)
  \/ \E r \in Reqs : RemoveFind(r)
  \/ \E r \in Reqs : RemoveDelete(r)

SpecPosts == InitPosts /\ [][NextPosts]_vars

(***************************************************************************)
(* The database with the post, once the OAuth user holds a token as well:  *)
(* the author and another user send requests to delete and to update       *)
(* posts.                                                                  *)
(***************************************************************************)
SeedTokenOAuth == signAsync(jwtPayload(SeedOAuth), 0)

InitOwners ==
  /\ users = { SeedLocal, SeedOAuth }
  /\ profiles = { [userId |-> 1, firstName |-> toLowerCase(FirstNameInput)],
                  [userId |-> 2, firstName |-> FirstNameInput] }
  /\ accounts = { [userId |-> 2, providerType |-> "google",
                   providerId |-> GoogleProviderId] }
  /\ follows = {}
  /\ posts = { SeedPost }
  /\ files = { [path |-> SeedPost.cover, content |-> 1] }
  /\ nextId = 4
  /\ issued = { SeedToken, SeedTokenOAuth }
  /\ now = 0
  /\ req = [r \in Reqs |-> IdleReq]
  /\ reqCount = 0

OwnersSliceRoutes == { "delete-post", "update-post" }

ArriveOwners(r) ==
  /\ ~Responding
  /\ Free(r)
  /\ \A q \in Reqs : q < r => ~Free(q)
  /\ reqCount < MaxRequests
  /\ \E route \in OwnersSliceRoutes :
       req' = [req EXCEPT ![r] = [IdleReq EXCEPT !.pc = "guard", !.route = route]]
  /\ reqCount' = reqCount + 1
  /\ UNCHANGED <<users, profiles, accounts, follows, posts, files, nextId, issued, now>>

NextOwners ==
  \/ \E r \in Reqs : Respond(r)
  \/ \E r \in Reqs : ArriveOwners(r)
  \/ \E r \in Reqs : Guard(r)
  \/ \E r \in Reqs : PostRemoveFind(r)
  \/ \E r \in Reqs : PostRemoveDelete(r)
  \/ \E r \in Reqs : PostUpdateFind(r)
  \/ \E r \in Reqs : PostUpdateUpload(r)
  \/ \E r \in Reqs : PostUpdate(r)

SpecOwners == InitOwners /\ [][NextOwners]_vars

TypeOK ==
  /\ nextId \in 1..(MaxRequests + 3)
  /\ now \in 0..MaxTime
  /\ reqCount \in 0..MaxRequests
  /\ \A u \in users : u.id \in 1..(nextId - 1)

(***************************************************************************)
(* Properties.                                                             *)
(***************************************************************************)
Past(r) == req[r].pc \notin { "idle", "guard" }
Done(r) == req[r].pc = "done"
LeavesGuard(r) == req[r].pc = "guard" /\ req'[r].pc # "guard"

WellSigned(token) ==
  /\ token.parts = 3
  /\ token.sig = [key |-> SECRET_KEY, body |-> token.payload]

Bearer(h) == h.present /\ h.type = "Bearer"
BearerToken(r) == Bearer(req[r].authorization)

\* The Authorization header the guard read in the step that leaves it.
Presented(r) == req'[r].authorization

\* C1: on a route that is not public a request enters the handler only with
\* a bearer token signed with the server's key, whose payload is the identity
\* on the request; a request that does not reach the handler ends with
\* Unauthorized, and a request without an Authorization header never reaches
\* the handler.
C1_HandlerOnlyBehindGuard ==
  \A r \in Reqs :
    (Past(r) /\ ~IsPublic(req[r].route)) =>
      /\ req[r].pc = Entry(req[r].route) =>
           /\ req[r].reached
           /\ BearerToken(r)
           /\ WellSigned(req[r].authorization.token)
           /\ req[r].user = req[r].authorization.token.payload
      /\ req[r].reached => req[r].user # NoPayload
      /\ ~req[r].reached =>
           /\ Done(r)
           /\ req[r].res = [status |-> "Unauthorized", accessToken |-> NoToken,
                           message |-> "fixed"]
           /\ \/ ~BearerToken(r)
              \/ ~WellSigned(req[r].authorization.token)
              \/ req[r].authorization.token.payload.exp <= now

C1_Witness ==
  \E r \in Reqs :
    /\ ~IsPublic(req[r].route)
    /\ ~req[r].authorization.present
    /\ Done(r)
    /\ req[r].res.status = "Unauthorized"
    /\ ~req[r].reached

Malformed(token) == token.parts # 3
BadSignature(token) == token.sig # [key |-> SECRET_KEY, body |-> token.payload]
Expired(token, t) == t >= token.payload.exp

\* C2: when the guard examines, on a route that is not public, a bearer token
\* that is malformed, carries a signature that does not match its payload, or
\* has reached its expiry, the request ends with Unauthorized, no identity is
\* attached and the handler is not reached.
C2_BadTokenRejected ==
  [][\A r \in Reqs :
       ( /\ LeavesGuard(r)
         /\ ~IsPublic(req[r].route)
         /\ Bearer(Presented(r))
         /\ \/ Malformed(Presented(r).token)
            \/ BadSignature(Presented(r).token)
            \/ Expired(Presented(r).token, now) )
       => /\ req'[r].pc = "done"
          /\ req'[r].res.status = "Unauthorized"
          /\ req'[r].user = NoPayload
          /\ ~req'[r].reached]_vars

\* A well-signed token of this server was turned away: it had expired.
C2_Witness ==
  \E r \in Reqs :
    /\ ~IsPublic(req[r].route)
    /\ BearerToken(r)
    /\ req[r].authorization.token \in issued
    /\ Done(r)
    /\ ~req[r].reached
    /\ req[r].res.status = "Unauthorized"
    /\ req[r].user = NoPayload

\* C3: on a public route the access guard lets every request through without
\* looking at the Authorization header (absent, valid or invalid) and attaches
\* no identity: sign-up and sign-in enter their handler, the OAuth callback is
\* handed to the route's own Google guard.
C3_PublicAlwaysAllowed ==
  [][\A r \in Reqs :
       (LeavesGuard(r) /\ IsPublic(req[r].route))
       => /\ req'[r].pc = Entry(req[r].route)
          /\ req'[r].res = NoRes
          /\ req'[r].user = NoPayload
          /\ req[r].route \in { "sign-up", "sign-in" } => req'[r].reached]_vars

\* A public handler was reached by a request that carried a token the guard
\* would have rejected.
C3_Witness ==
  \E r \in Reqs :
    /\ IsPublic(req[r].route)
    /\ req[r].reached
    /\ req[r].user = NoPayload
    /\ BearerToken(r)
    /\ Malformed(req[r].authorization.token)

\* The stored digest of user u is a digest of the password pw.
PasswordOf(u, pw) == u.password = [alg |-> "bcrypt", salt |-> u.password.salt, text |-> pw]

Leaves(r, label) == req[r].pc = label /\ req'[r].pc # label

\* C4: a sign-in with the stored email and the password of a user created by
\* sign-up finds that user and answers Created with a token that verifies to
\* sub = the user's id and email = the user's email; a request that presents
\* an unexpired issued token on a protected route reaches the handler with
\* req.user.sub equal to the token's subject.
C4_SignInTokenIdentifiesUser ==
  [][/\ \A r \in Reqs : \A u \in users :
          ( /\ Leaves(r, "login")
            /\ u.via = "local"
            /\ u.email = req[r].body.email
            /\ PasswordOf(u, req[r].body.password) )
          => (req'[r].pc = "login_compare" /\ req'[r].found = u)
     /\ \A r \in Reqs :
          (Leaves(r, "login_compare") /\ PasswordOf(req[r].found, req[r].body.password))
          => /\ req'[r].pc = "done"
             /\ req'[r].res.status = "Created"
             /\ req'[r].res.accessToken \in issued'
             /\ LET payload == verifyAsync(req'[r].res.accessToken, SECRET_KEY, now)
                IN  /\ payload.sub = req[r].found.id
                    /\ payload.email = req[r].found.email
     /\ \A r \in Reqs :
          ( /\ LeavesGuard(r)
            /\ ~IsPublic(req[r].route)
            /\ Bearer(Presented(r))
            /\ Presented(r).token \in issued
            /\ ~Expired(Presented(r).token, now) )
          => /\ req'[r].reached
             /\ req'[r].user.sub = Presented(r).token.payload.sub
             /\ req'[r].user.sub \in 1..(nextId - 1)]_vars

C4_Witness ==
  \E r \in Reqs : \E u \in users :
    /\ ~IsPublic(req[r].route)
    /\ req[r].reached
    /\ req[r].authorization.token \in issued
    /\ u.via = "local"
    /\ req[r].user.sub = u.id
    /\ req[r].user.email = u.email

\* C5: a sign-in ends with Unauthorized and without a token, and hands out no
\* token, when no user has the submitted email, when the user with that email
\* has no password hash, and when the submitted password does not match the
\* stored hash.
C5_SignInFailuresAreUnauthorized ==
  [][/\ \A r \in Reqs :
          ( /\ Leaves(r, "login")
            /\ \/ ~\E u \in users : u.email = req[r].body.email
               \/ \E u \in users : u.email = req[r].body.email
                                     /\ u.password = NullPassword )
          => /\ req'[r].pc = "done"
             /\ req'[r].res = [status |-> "Unauthorized", accessToken |-> NoToken,
                           message |-> "fixed"]
             /\ issued' = issued
     /\ \A r \in Reqs :
          ( /\ Leaves(r, "login_compare")
            /\ ~PasswordOf(req[r].found, req[r].body.password) )
          => /\ req'[r].pc = "done"
             /\ req'[r].res = [status |-> "Unauthorized", accessToken |-> NoToken,
                           message |-> "fixed"]
             /\ issued' = issued]_vars

\* A sign-in for an account that only exists through OAuth was turned away.
C5_Witness ==
  \E r \in Reqs :
    /\ req[r].route = "sign-in"
    /\ Done(r)
    /\ req[r].found.via = "google"
    /\ req[r].found \in users
    /\ req[r].res.status = "Unauthorized"

\* C6: the insert of a sign-up answers Created exactly when its email is not
\* yet in the store; it then adds exactly one User row and exactly one Profile
\* row owned by it, adds no Account row, and the stored password is a digest
\* of the submitted password that differs from it.  Otherwise it adds nothing.
C6_SignUpCreatesUserAndProfile ==
  [][\A r \in Reqs :
       Leaves(r, "register_create")
       => IF \E u \in users : u.email = req[r].body.email
          THEN req'[r].res.status # "Created" /\ UNCHANGED tables
          ELSE /\ req'[r].res.status = "Created"
               /\ \E u \in users' \ users :
                    /\ users' = users \cup { u }
                    /\ u.email = req[r].body.email
                    /\ u.password # RawString(req[r].body.password)
                    /\ bcryptCompare(req[r].body.password, u.password) = "true"
                    /\ \E p \in profiles' \ profiles :
                         /\ profiles' = profiles \cup { p }
                         /\ p.userId = u.id
                    /\ \A q \in profiles : q.userId # u.id
               /\ accounts' = accounts]_vars

C6_Witness ==
  \E r \in Reqs :
    /\ req[r].route = "sign-up"
    /\ Done(r)
    /\ req[r].res.status = "Created"
    /\ req[r].found \in users
    /\ \E p \in profiles : p.userId = req[r].found.id

\* C7: a sign-up whose email equals, up to letter case, the email of a user
\* created by an earlier sign-up ends with Conflict and leaves the User,
\* Profile and Account tables unchanged.
SameUpToCase(e1, e2) == toLowerCase(e1) = toLowerCase(e2)

C7_SecondSignUpConflicts ==
  [][\A r \in Reqs :
       ( /\ Leaves(r, "register")
         /\ \E u \in users : u.via = "local" /\ SameUpToCase(u.email, req[r].body.email) )
       => /\ req'[r].pc = "done"
          /\ req'[r].res.status = "Conflict"
          /\ UNCHANGED tables]_vars

C7_Witness ==
  \E r \in Reqs :
    /\ req[r].route = "sign-up"
    /\ Done(r)
    /\ req[r].res.status = "Conflict"
    /\ req[r].found \in users
    /\ req[r].found.via = "local"

\* C8: emails are normalised before storage and lookup: no two stored users
\* have emails equal up to letter case, and a sign-up or sign-in whose email
\* equals, up to letter case, the email of a user created by sign-up is
\* treated as that user (the sign-up ends with Conflict, the sign-in finds
\* the user).
C8_EmailsCaseNormalised ==
  [][/\ \A u, v \in users' : SameUpToCase(u.email, v.email) => u = v
     /\ \A r \in Reqs :
          ( /\ Leaves(r, "register")
            /\ \E u \in users : u.via = "local" /\ SameUpToCase(u.email, req[r].body.email) )
          => req'[r].res.status = "Conflict"
     /\ \A r \in Reqs : \A u \in users :
          ( /\ Leaves(r, "login")
            /\ u.via = "local"
            /\ SameUpToCase(u.email, req[r].body.email) )
          => req'[r].found = u]_vars

\* C9: no two User rows share an email, and a sign-up that does not create
\* its user (in particular the loser of two sign-ups that both passed the
\* existence check) ends with Conflict.
C9_RaceLoserGetsConflict ==
  /\ \A u, v \in users : u.email = v.email => u = v
  /\ \A r \in Reqs :
       (req[r].route = "sign-up" /\ Done(r) /\ req[r].res.status # "Created")
       => req[r].res.status = "Conflict"

\* C10: in every state every User row has exactly one Profile row, and every
\* User created by an OAuth login has an Account row.
C10_UserNeverWithoutSatellites ==
  \A u \in users :
    /\ Cardinality({ p \in profiles : p.userId = u.id }) = 1
    /\ u.via = "google" => \E a \in accounts : a.userId = u.id

\* A sign-up lost the race for its email and failed, while the store holds a
\* user created by sign-up and a user created by an OAuth login.
C10_Witness ==
  /\ \E r \in Reqs :
       req[r].route = "sign-up" /\ Done(r) /\ req[r].res.status = "Internal"
  /\ \E u \in users : u.via = "google"
  /\ \E u \in users : u.via = "local"

\* C11: in every state every User row without a password hash has at least
\* one Account row linked to it.
C11_PasswordlessUserHasAccount ==
  \A u \in users :
    u.password = NullPassword => \E a \in accounts : a.userId = u.id

\* The store holds a user without a password hash next to one with a hash.
C11_Witness ==
  /\ \E u \in users : u.password = NullPassword
  /\ \E u \in users : u.password # NullPassword /\ ~\E a \in accounts : a.userId = u.id

\* C12: an OAuth login whose email belongs to a user finds that user, makes
\* no insert and leaves every User, Profile and Account row as it is; a user
\* created by sign-up never has an Account row.
C12_OAuthLoginOfKnownEmailChangesNothing ==
  [][/\ \A r \in Reqs : \A u \in users :
          (Leaves(r, "google_validate") /\ u.email = req[r].body.email)
          => /\ req'[r].found = u
             /\ req'[r].pc = "done"
             /\ UNCHANGED tables
     /\ \A u \in users' :
          u.via = "local" => ~\E a \in accounts' : a.userId = u.id]_vars

\* An OAuth login came in with the email of a user created by sign-up.
C12_Witness ==
  \E r \in Reqs :
    /\ req[r].route = "google-callback"
    /\ Done(r)
    /\ req[r].found \in users
    /\ req[r].found.via = "local"
    /\ req[r].found.email = req[r].body.email
    /\ ~\E a \in accounts : a.userId = req[r].found.id

\* C13: the insert of an OAuth login whose email belongs to no user adds
\* exactly one User row, without a password hash, exactly one Profile row and
\* exactly one Account row with providerType "google" and the id the provider
\* assigned, both owned by the new user.
C13_FirstOAuthLoginCreatesUserProfileAccount ==
  [][\A r \in Reqs :
       (Leaves(r, "google_create") /\ ~EmailTaken(req[r].body.email))
       => \E u \in users' \ users :
            /\ users' = users \cup { u }
            /\ u.email = req[r].body.email
            /\ u.password = NullPassword
            /\ \A v \in users : v.id # u.id
            /\ \E p \in profiles' \ profiles :
                 /\ profiles' = profiles \cup { p }
                 /\ p.userId = u.id
            /\ \E a \in accounts' \ accounts :
                 /\ accounts' = accounts \cup { a }
                 /\ a.userId = u.id
                 /\ a.providerType = "google"
                 /\ a.providerId = req[r].body.providerId
                 /\ a.providerId # ""]_vars

\* A first OAuth login has written its rows.
C13_Witness ==
  \E r \in Reqs :
    /\ req[r].route = "google-callback"
    /\ Done(r)
    /\ req[r].found \in users
    /\ req[r].found.via = "google"
    /\ req[r].found.password = NullPassword
    /\ \E a \in accounts : a.userId = req[r].found.id /\ a.providerId = GoogleProviderId
    /\ \E p \in profiles : p.userId = req[r].found.id

\* C14: an OAuth callback that resolves its user, found by email or newly
\* created, completes with an access token that is handed out and whose
\* subject is the id of that user.
C14_OAuthCallbackHandsBackToken ==
  [][\A r \in Reqs :
       ( /\ req[r].route = "google-callback"
         /\ req[r].pc # "done"
         /\ req'[r].pc = "done"
         /\ req'[r].found \in users' )
       => /\ req'[r].res.status = "OK"
          /\ req'[r].res.accessToken \in issued'
          /\ req'[r].res.accessToken.payload.sub = req'[r].found.id]_vars

\* C15: every issued token expires one token lifetime (one day) after it was
\* issued, and the guard of a route that is not public accepts an issued token
\* exactly while less than that lifetime has passed since its issue: before
\* the expiry the request enters the handler, from the expiry on it ends
\* with Unauthorized.
C15_TokenAcceptedUntilExpiry ==
  [][/\ \A t \in issued' : t.payload.exp = t.payload.iat + TokenLifetime
     /\ \A r \in Reqs :
          ( /\ LeavesGuard(r)
            /\ ~IsPublic(req[r].route)
            /\ Bearer(Presented(r))
            /\ Presented(r).token \in issued )
          => IF now - Presented(r).token.payload.iat < TokenLifetime
             THEN /\ req'[r].reached
                  /\ req'[r].pc = Entry(req[r].route)
                  /\ req'[r].user = Presented(r).token.payload
             ELSE /\ ~req'[r].reached
                  /\ req'[r].pc = "done"
                  /\ req'[r].res.status = "Unauthorized"]_vars

\* An issued token was presented at the very instant of its expiry and turned
\* away.
C15_Witness ==
  \E r \in Reqs :
    /\ ~IsPublic(req[r].route)
    /\ Done(r)
    /\ ~req[r].reached
    /\ BearerToken(r)
    /\ req[r].authorization.token \in issued
    /\ now = req[r].authorization.token.payload.exp
    /\ req[r].res.status = "Unauthorized"

\* C16: no token is ever withdrawn, and whatever the tables hold, also when
\* the user the token was issued to has been deleted, the guard of a route
\* that is not public accepts an issued token that has not expired: the
\* request enters the handler as the token's subject.
C16_NoRevocation ==
  [][/\ issued \subseteq issued'
     /\ \A r \in Reqs : \A t \in issued :
          ( /\ LeavesGuard(r)
            /\ ~IsPublic(req[r].route)
            /\ Presented(r) = Header("Bearer", t)
            /\ now < t.payload.exp )
          => /\ req'[r].pc = Entry(req[r].route)
             /\ req'[r].reached
             /\ req'[r].user.sub = t.payload.sub
             /\ req'[r].user.email = t.payload.email]_vars

\* The guard let in a request with the token of a user that had been deleted.
C16_Witness ==
  \E r \in Reqs :
    /\ req[r].route \in Routes
    /\ ~IsPublic(req[r].route)
    /\ req[r].pc = Entry(req[r].route)
    /\ req[r].reached
    /\ req[r].authorization.token \in issued
    /\ req[r].user.sub = req[r].authorization.token.payload.sub
    /\ \A u \in users : u.id # req[r].user.sub

\* C17: a follow of a pair whose edge is already in the Follows table ends
\* with Conflict and leaves the table, which holds that edge once, as it is.
C17_SecondFollowConflicts ==
  [][\A r \in Reqs :
       ( /\ Leaves(r, "follow_create")
         /\ Edge(req[r].found.id, req[r].body.followedId) \in follows )
       => /\ req'[r].res.status = "Conflict"
          /\ follows' = follows]_vars

\* C18: an unfollow of a pair whose edge is not in the Follows table ends
\* with NotFound and leaves the table as it is.
C18_UnfollowOfMissingEdgeNotFound ==
  [][\A r \in Reqs :
       ( /\ Leaves(r, "unfollow_delete")
         /\ Edge(req[r].found.id, req[r].body.followedId) \notin follows )
       => /\ req'[r].res.status = "NotFound"
          /\ follows' = follows]_vars

\* C19: the delete of an existing user answers OK and removes the User row,
\* its Profile row, its Account rows and every Follows edge it is the follower
\* or the following of, and nothing else; no edge ever points at a user that
\* does not exist; and once the user is gone, fetching its profile and
\* deleting it again end with NotFound.
Mentions(f, id) == f.followerId = id \/ f.followingId = id

C19_DeleteCascades ==
  [][/\ \A r \in Reqs :
          (Leaves(r, "remove_delete") /\ \E u \in users : u.id = req[r].body.id)
          => /\ req'[r].res.status = "OK"
             /\ users' = { u \in users : u.id # req[r].body.id }
             /\ profiles' = { q \in profiles : q.userId # req[r].body.id }
             /\ accounts' = { a \in accounts : a.userId # req[r].body.id }
             /\ follows' = { f \in follows : ~Mentions(f, req[r].body.id) }
     /\ \A f \in follows' : \A id \in { f.followerId, f.followingId } :
          \E u \in users' : u.id = id
     /\ \A r \in Reqs :
          ( /\ Leaves(r, "remove_find") \/ Leaves(r, "profile")
            /\ \A u \in users : u.id # req[r].body.id )
          => /\ req'[r].res.status = "NotFound"
             /\ UNCHANGED <<users, profiles, accounts, follows>>]_vars

\* The profile of a user that was deleted, together with its rows, was asked
\* for and not found.
C19_Witness ==
  \E r \in Reqs :
    /\ req[r].route = "get-profile"
    /\ Done(r)
    /\ req[r].res.status = "NotFound"
    /\ req[r].body.id \in 1..(nextId - 1)
    /\ \A u \in users : u.id # req[r].body.id
    /\ \A q \in profiles : q.userId # req[r].body.id
    /\ \A a \in accounts : a.userId # req[r].body.id

\* C20: every request that completes carries a success envelope (OK,
\* Created) or one of the error kinds Conflict, Unauthorized, NotFound,
\* Internal; in particular followUser and unfollowUser never return without
\* a result or an error.
C20_EveryResponseIsEnvelopeOrError ==
  \A r \in Reqs :
    Done(r) => req[r].res.status \in { "OK", "Created", "Conflict", "Unauthorized",
                                        "NotFound", "Internal" }

\* C21: a request that completes with an error other than a deliberately
\* raised Conflict, Unauthorized or NotFound ends as an Internal error whose
\* message is a text fixed in the service, never the text of the storage
\* layer's error.  (A request that completes with no result at all is the
\* subject of C20 and is left aside here.)
C21_InternalErrorsAreGeneric ==
  \A r \in Reqs :
    (Done(r) /\ req[r].res.status \notin { "OK", "Created", "Nothing", "Conflict",
                                            "Unauthorized", "NotFound" })
      => (req[r].res.status = "Internal" /\ req[r].res.message = "fixed")

\* C22: follow and unfollow act only for the owner of the token.  When the
\* token's subject differs from :id the request ends with Unauthorized and
\* the Follows table is unchanged; every edge that followUser inserts and
\* every edge that unfollowUser removes has the token's subject as follower.
C22_FollowOnlyForTokenOwner ==
  [][\A r \in Reqs :
       /\ ((Leaves(r, "follow") \/ Leaves(r, "unfollow"))
            /\ req[r].user.sub # req[r].body.id)
          => (req'[r].res.status = "Unauthorized" /\ follows' = follows)
       /\ Leaves(r, "follow_create")
          => \A e \in follows' \ follows : e.followerId = req[r].user.sub
       /\ Leaves(r, "unfollow_delete")
          => \A e \in follows \ follows' : e.followerId = req[r].user.sub]_vars

\* A follow for another user's id was refused while an edge inserted for
\* the token's owner is in the table.
C22_Witness ==
  \E r \in Reqs :
    /\ req[r].route \in { "follow", "unfollow" }
    /\ Done(r)
    /\ req[r].reached
    /\ req[r].user.sub # req[r].body.id
    /\ req[r].res.status = "Unauthorized"
    /\ follows # {}

\* C23: following a target id that belongs to no user fails with NotFound
\* and inserts no Follows edge.
C23_FollowOfMissingTargetNotFound ==
  [][\A r \in Reqs :
       (Leaves(r, "follow_create") /\ findById(req[r].body.followedId) = NoUser)
       => (req'[r].res.status = "NotFound" /\ follows' = follows)]_vars

\* C24: in every reachable state each Follows edge joins two existing users,
\* and the table holds at most one edge per ordered pair of users.  A Follows
\* row has no column besides its composite key (followerId, followingId), so
\* the table is the set of its keys; a second insert of a pair is answered
\* P2002 by FollowsCreateOutcomes and leaves the table as it is.
C24_FollowsReferentialIntegrity ==
  /\ \A f \in follows : findById(f.followerId) # NoUser /\ findById(f.followingId) # NoUser
  /\ \A f, g \in follows :
       (f.followerId = g.followerId /\ f.followingId = g.followingId) => f = g

\* An edge is in the table after a user was deleted.
C24_Witness ==
  /\ follows # {}
  /\ \E id \in 1..(nextId - 1) : findById(id) = NoUser

\* C25: a current-user request that passed the guard with a token whose
\* subject is no longer a user ends with Unauthorized, not NotFound or
\* Internal, and carries no user data.
C25_CurrentUserOfDeletedUserUnauthorized ==
  [][\A r \in Reqs :
       (Leaves(r, "current_user") /\ findById(req[r].user.sub) = NoUser)
       => /\ req[r].reached
          /\ req'[r].res.status = "Unauthorized"
          /\ req'[r].found = NoUser]_vars

\* The owner of an issued, unexpired token was deleted and the token's
\* current-user request was answered Unauthorized by the handler.
C25_Witness ==
  \E r \in Reqs :
    /\ req[r].route = "current-user"
    /\ Done(r)
    /\ req[r].reached
    /\ \E t \in issued : t.payload.sub = req[r].user.sub /\ now < t.payload.exp
    /\ findById(req[r].user.sub) = NoUser
    /\ req[r].res.status = "Unauthorized"

\* C26: DELETE /users/:id has no ownership check.  What it answers and what
\* it deletes are determined by :id and the tables alone, whatever the
\* subject of the token is; in particular a user can delete another user.
C26_DeleteUserIgnoresTokenSubject ==
  [][\A r \in Reqs :
       /\ Leaves(r, "remove_find")
          => /\ req'[r].res.status
                  = (IF findById(req[r].body.id) = NoUser THEN "NotFound" ELSE "None")
             /\ req'[r].pc
                  = (IF findById(req[r].body.id) = NoUser THEN "done" ELSE "remove_delete")
             /\ UNCHANGED <<users, profiles, accounts, follows>>
       /\ Leaves(r, "remove_delete")
          => /\ req'[r].res.status
                  = (IF findById(req[r].body.id) = NoUser THEN "Internal" ELSE "OK")
             /\ users' = { u \in users : u.id # req[r].body.id }
             /\ profiles' = { q \in profiles : q.userId # req[r].body.id }
             /\ accounts' = { a \in accounts : a.userId # req[r].body.id }
             /\ follows' = { f \in follows : ~Mentions(f, req[r].body.id) }]_vars

\* A request with one user's token deleted another user.
C26_Witness ==
  \E r \in Reqs :
    /\ req[r].route = "delete-user"
    /\ Done(r)
    /\ req[r].reached
    /\ req[r].user.sub # req[r].body.id
    /\ req[r].res.status = "OK"
    /\ findById(req[r].body.id) = NoUser
    /\ findById(req[r].user.sub) # NoUser

\* C27: a create-post request whose title gives a slug that a post already
\* has ends with Conflict, adds no Post row and writes no cover file; and in
\* every state no two posts have the same slug.
C27_DuplicateSlugConflicts ==
  /\ [](\A p, q \in posts : p.slug = q.slug => p = q)
  /\ [][\A r \in Reqs :
          (Leaves(r, "post_create_find")
             /\ \E q \in posts : q.slug = slug(req[r].body.title))
          => /\ req'[r].res.status = "Conflict"
             /\ posts' = posts
             /\ files' = files]_vars

\* A create-post request was refused with Conflict for a title that differs
\* from the title of the post holding its slug.
C27_Witness ==
  \E r \in Reqs :
    /\ req[r].route = "create-post"
    /\ Done(r)
    /\ req[r].res.status = "Conflict"
    /\ \E q \in posts : q.slug = slug(req[r].body.title) /\ q.title # req[r].body.title

\* C28: a post is deleted or updated only by its author.  A delete-post or
\* update-post request whose token's subject is not the author of the post
\* it names ends with NotFound and leaves the Post rows and the cover files
\* as they are; every row that remove or updatePost deletes or rewrites has
\* the token's subject as author.
C28_OnlyAuthorChangesPost ==
  [][\A r \in Reqs :
       /\ (Leaves(r, "post_remove_find")
             /\ \E q \in posts : q.id = req[r].body.id /\ q.authorId # req[r].user.sub)
          => (req'[r].res.status = "NotFound" /\ posts' = posts /\ files' = files)
       /\ (Leaves(r, "post_update_find")
             /\ \E q \in posts : q.slug = req[r].body.slug /\ q.authorId # req[r].user.sub)
          => (req'[r].res.status = "NotFound" /\ posts' = posts /\ files' = files)
       /\ (Leaves(r, "post_remove_delete") \/ Leaves(r, "post_update"))
          => \A q \in posts \ posts' : q.authorId = req[r].user.sub]_vars

\* A request of a user who is not the author named an existing post, was
\* answered NotFound, and the post and its cover file are in place.
C28_Witness ==
  \E r \in Reqs : \E q \in posts :
    /\ req[r].route \in { "delete-post", "update-post" }
    /\ Done(r)
    /\ req[r].reached
    /\ req[r].res.status = "NotFound"
    /\ q.authorId # req[r].user.sub
    /\ IF req[r].route = "delete-post" THEN q.id = req[r].body.id
                                       ELSE q.slug = req[r].body.slug
    /\ \E f \in files : f.path = q.cover

\* C29: GET /users/:id/posts answers NotFound when no user has the id, and
\* for an existing user answers OK with exactly the posts whose authorId is
\* the id.
C29_UserPostsAreTheAuthorsPosts ==
  [][\A r \in Reqs :
       /\ (Leaves(r, "user_posts_find") /\ findById(req[r].body.id) = NoUser)
          => req'[r].res.status = "NotFound"
       /\ Leaves(r, "user_posts_read")
          => /\ req'[r].res.status = "OK"
             /\ req'[r].data = { q \in posts : q.authorId = req[r].body.id }]_vars

=============================================================================
